---------------------------- MODULE Spec2Model ----------------------------
(***************************************************************************)
(* Verification model of the IPL prediction bot.                           *)
(*                                                                         *)
(*   - bot_manager.py: the supervisor that launches prediction_bot.py,     *)
(*     watches its stderr for the webhook-conflict marker and restarts it  *)
(*     (specification SupSpec);                                            *)
(*   - prediction_bot.py: the poll-answer handler, the /score command and  *)
(*     the poll map, working on the Predictions sheet through              *)
(*     get_all_records / clear / update (specification Spec).              *)
(*                                                                         *)
(* Text is modelled as a sequence of one-character strings, so that        *)
(* strip(), lower() and split(" vs ") are computed, not assumed.           *)
(***************************************************************************)
EXTENDS Integers, Sequences, FiniteSets, TLC

VARIABLES
    \* ---- bot_manager.py ------------------------------------------------
    pc,                     \* position of the control thread in __main__ / run_bot
    restart_count,          \* run_bot parameter
    consecutive_errors,     \* run_bot parameter
    child,                  \* the Popen object: "none", "running", "exited", "killed"
    returncode,             \* exit code of the child, -1 while none
    run_time,               \* seconds measured after the monitor loop
    stderr_pipe,            \* lines in the child's stderr pipe, not yet queued
    stderr_queue,           \* lines the reader thread queued, not yet read
    written,                \* every line the current child has written to stderr
    console,                \* the lines of the current child that were printed
    webhook_error_detected, \* local flag of run_bot
    emitted,                \* lines the current child has written to stderr
    spawns,                 \* Popen calls so far
    cooldowns,              \* time.sleep(error_cooldown) calls so far
    delete_runs,            \* run_delete_webhook calls since the last Popen
    delete_ok,              \* what the last run_delete_webhook returned
    last_sleep,             \* seconds of the control thread's last long sleep
    cause,                  \* why run_bot was last re-entered
    fast_run,               \* child exits in a row that were nonzero and quick
    run_base,               \* consecutive_errors when that row began, or, after
                            \* a slow crash, the count that crash set back to 0
    config,                 \* the environment and files every child starts in
    \* ---- prediction_bot.py --------------------------------------------
    pred_sheet,             \* data rows of the Predictions sheet, cells as text
    poll_sheet,             \* data rows of the poll map sheet, cells as text
    polls_sent,             \* polls Telegram has created for this bot
    last,                   \* the event handled last and how it ended
    events,                 \* updates handled so far
    loop                    \* handlers on the event loop, each at its await

supVars == <<pc, restart_count, consecutive_errors, child, returncode, run_time,
             stderr_pipe, written, console, stderr_queue, webhook_error_detected, emitted, spawns, cooldowns,
             delete_runs, delete_ok, last_sleep, cause, fast_run, run_base, config>>

botVars == <<pred_sheet, poll_sheet, polls_sent, last, events, loop>>

vars == <<supVars, botVars>>

(***************************************************************************)
(* bot_manager.py: constants                                               *)
(***************************************************************************)
max_restarts == 10
max_consecutive_errors == 3
error_cooldown == 60
quick_crash_seconds == 10

\* Lines one child may write to stderr before it is stopped or exits.
MaxLines == 2

\* Exit codes a child can end with on its own, and measured run times around
\* the 10 second limit.
ExitCodes == {0, 1}
RunTimes == {quick_crash_seconds - 1, quick_crash_seconds, quick_crash_seconds + 1}

ConflictLine == "Webhook conflict detected"
OtherLine == "log"
StderrLines == {ConflictLine, OtherLine}

\* What the bot finds when it starts: all it needs, or GROUP_CHAT_ID unset,
\* BOT_TOKEN unset, GOOGLE_CREDENTIALS_JSON unset, a schedule CSV that lacks
\* a required column.
ConfigErrors == {"no_chat_id", "no_token", "no_credentials", "no_schedule_columns"}

\* The exit codes of the bot process.  int(None) at import and Bot(token=None)
\* raise out of the script; a failed authorize_gspread or
\* load_schedule_mapping is logged and main returns; a bot that got as far as
\* polling ends with any code.
main_exit(cfg) ==
    CASE cfg \in {"no_chat_id", "no_token"} -> {1}
      [] cfg \in {"no_credentials", "no_schedule_columns"} -> {0}
      [] OTHER -> ExitCodes

\* The supervisor before __main__ runs, in a given environment.
SupBoot(cfg) ==
    /\ config = cfg
    /\ pc = "main"
    /\ restart_count = 0
    /\ consecutive_errors = 0
    /\ child = "none"
    /\ returncode = -1
    /\ run_time = 0
    /\ stderr_pipe = <<>>
    /\ stderr_queue = <<>>
    /\ written = <<>>
    /\ console = <<>>
    /\ webhook_error_detected = FALSE
    /\ emitted = 0
    /\ spawns = 0
    /\ cooldowns = 0
    /\ delete_runs = 0
    /\ delete_ok = FALSE
    /\ last_sleep = 0
    /\ cause = "start"
    /\ fast_run = 0
    /\ run_base = 0

SupInit == SupBoot("ok")

\* __main__: run_delete_webhook() once, its result ignored, then run_bot().
MainDelete ==
    /\ UNCHANGED <<botVars, config>>
    /\ UNCHANGED <<stderr_pipe, written, console>>
    /\ pc = "main"
    /\ \E ok \in BOOLEAN :
        /\ delete_runs' = delete_runs + 1
        /\ delete_ok' = ok
        /\ pc' = "guard"
    /\ UNCHANGED <<last_sleep, restart_count, consecutive_errors, child, returncode, run_time,
                   stderr_queue, webhook_error_detected, emitted, spawns,
                   cooldowns, cause, fast_run, run_base>>

RestartsExhausted_late == restart_count > max_restarts

\* if restart_count >= max_restarts
RestartsExhausted == restart_count >= max_restarts

\* A test that lets the third error pass.
ErrorsExceeded_late == consecutive_errors > max_consecutive_errors

\* if consecutive_errors >= max_consecutive_errors
ErrorsExceeded == consecutive_errors >= max_consecutive_errors

\* A cleanup before the first launch as well.
NeedsCleanup_always == restart_count >= 0

\* if restart_count > 0
NeedsCleanup == restart_count > 0

\* run_bot entry: the restart budget.  The queues and the output of the call
\* before are local to that call and out of reach of this one.
CheckRestarts ==
    /\ UNCHANGED <<botVars, config>>
    /\ pc = "guard"
    /\ pc' = IF RestartsExhausted THEN "done" ELSE "errors"
    /\ stderr_pipe' = <<>>
    /\ stderr_queue' = <<>>
    /\ written' = <<>>
    /\ console' = <<>>
    /\ UNCHANGED <<delete_ok, last_sleep, restart_count, consecutive_errors, child, returncode, run_time,
                   webhook_error_detected, emitted, spawns,
                   cooldowns, delete_runs, cause, fast_run, run_base>>

\* The pause after consecutive errors, then on to the cleanup or the launch.
CheckErrors ==
    /\ UNCHANGED <<botVars, config>>
    /\ UNCHANGED <<stderr_pipe, written, console>>
    /\ pc = "errors"
    /\ IF ErrorsExceeded
          THEN /\ cooldowns' = cooldowns + 1
               /\ last_sleep' = error_cooldown
               /\ consecutive_errors' = 0
          ELSE UNCHANGED <<cooldowns, last_sleep, consecutive_errors>>
    /\ pc' = IF NeedsCleanup THEN "delete1" ELSE "spawn"
    /\ UNCHANGED <<delete_ok, restart_count, child, returncode, run_time, stderr_queue,
                   webhook_error_detected, emitted, spawns, delete_runs, cause,
                   fast_run, run_base>>

\* if not run_delete_webhook(): sleep(10) and try once more.
PreDelete1 ==
    /\ UNCHANGED <<botVars, config>>
    /\ UNCHANGED <<stderr_pipe, written, console>>
    /\ pc = "delete1"
    /\ \E ok \in BOOLEAN :
        /\ delete_runs' = delete_runs + 1
        /\ delete_ok' = ok
        /\ last_sleep' = IF ok THEN last_sleep ELSE 10
        /\ pc' = IF ok THEN "spawn" ELSE "delete2"
    /\ UNCHANGED <<restart_count, consecutive_errors, child, returncode, run_time,
                   stderr_queue, webhook_error_detected, emitted, spawns,
                   cooldowns, cause, fast_run, run_base>>

\* The second run_delete_webhook(): "Continuing anyway" whatever it returns.
PreDelete2 ==
    /\ UNCHANGED <<botVars, config>>
    /\ UNCHANGED <<stderr_pipe, written, console>>
    /\ pc = "delete2"
    /\ \E ok \in BOOLEAN :
        /\ delete_runs' = delete_runs + 1
        /\ delete_ok' = ok
        /\ pc' = "spawn"
    /\ UNCHANGED <<last_sleep, restart_count, consecutive_errors, child, returncode, run_time,
                   stderr_queue, webhook_error_detected, emitted, spawns,
                   cooldowns, cause, fast_run, run_base>>

\* subprocess.Popen, fresh queues and reader threads, the flag cleared.
Spawn ==
    /\ UNCHANGED <<botVars, config>>
    /\ pc = "spawn"
    /\ child' = "running"
    /\ returncode' = -1
    /\ stderr_pipe' = <<>>
    /\ stderr_queue' = <<>>
    /\ written' = <<>>
    /\ console' = <<>>
    /\ webhook_error_detected' = FALSE
    /\ emitted' = 0
    /\ spawns' = spawns + 1
    /\ delete_runs' = 0
    /\ pc' = "poll"
    /\ UNCHANGED <<delete_ok, last_sleep, restart_count, consecutive_errors, run_time, cooldowns, cause,
                   fast_run, run_base>>

\* while process.poll() is None
LoopTest ==
    /\ UNCHANGED <<botVars, config>>
    /\ UNCHANGED <<stderr_pipe, written, console>>
    /\ pc = "poll"
    /\ pc' = IF child = "running" THEN "drain" ELSE "after"
    /\ UNCHANGED <<delete_ok, last_sleep, restart_count, consecutive_errors, child, returncode, run_time,
                   stderr_queue, webhook_error_detected, emitted, spawns,
                   cooldowns, delete_runs, cause, fast_run, run_base>>

HasConflict(q) == \E i \in DOMAIN q : q[i] = ConflictLine

\* One pass of the loop body: read every queued stderr line, scan it for the
\* marker, break when it was seen, otherwise sleep(0.1) and test again.
Drain ==
    /\ UNCHANGED <<botVars, config>>
    /\ pc = "drain"
    /\ webhook_error_detected' = (webhook_error_detected \/ HasConflict(stderr_queue))
    /\ console' = console \o stderr_queue
    /\ stderr_queue' = <<>>
    /\ UNCHANGED <<stderr_pipe, written>>
    /\ pc' = IF webhook_error_detected' THEN "after" ELSE "poll"
    /\ UNCHANGED <<delete_ok, last_sleep, restart_count, consecutive_errors, child, returncode, run_time,
                   emitted, spawns, cooldowns, delete_runs, cause, fast_run,
                   run_base>>

\* A branch that first looks whether the child is still alive.
ConflictBranch_if_running == webhook_error_detected /\ child = "running"

\* if webhook_error_detected: the test after the loop, on the flag alone.
ConflictBranch == webhook_error_detected

\* run_time = time.time() - run_time_start, then the branch on the flag.
AfterLoop ==
    /\ UNCHANGED <<botVars, config>>
    /\ UNCHANGED <<stderr_pipe, written, console>>
    /\ pc = "after"
    /\ \E t \in RunTimes : run_time' = t
    /\ pc' = IF ConflictBranch THEN "terminate" ELSE "wait"
    /\ UNCHANGED <<delete_ok, last_sleep, restart_count, consecutive_errors, child, returncode,
                   stderr_queue, webhook_error_detected, emitted, spawns,
                   cooldowns, delete_runs, cause, fast_run, run_base>>

\* A terminate() that is not followed by wait and kill: a child that does not
\* act on SIGTERM runs on.
terminate_outcomes_unwaited == {"exited", "killed", "running"}

\* What a running child is after process.terminate(), process.wait(timeout=5)
\* and, on timeout, process.kill(): ended by its SIGTERM handler, or killed.
terminate_outcomes == {"exited", "killed"}

\* process.terminate(); process.wait(timeout=5), process.kill() on timeout.
\* The bot's SIGTERM handler calls sys.exit(0).
Terminate ==
    /\ UNCHANGED <<botVars, config>>
    /\ UNCHANGED <<stderr_pipe, written, console>>
    /\ pc = "terminate"
    /\ \/ /\ child = "running"
          /\ \E outcome \in terminate_outcomes :
                /\ child' = outcome
                /\ returncode' = CASE outcome = "exited" -> 0
                                   [] outcome = "killed" -> -9
                                   [] OTHER -> returncode
       \/ /\ child # "running"
          /\ UNCHANGED <<child, returncode>>
    /\ delete_runs' = 0
    /\ pc' = "postdelete"
    /\ UNCHANGED <<delete_ok, last_sleep, restart_count, consecutive_errors, run_time, stderr_queue,
                   webhook_error_detected, emitted, spawns, cooldowns, cause,
                   fast_run, run_base>>

ConflictRestart_byTime ==
    <<restart_count + 1,
      IF run_time < quick_crash_seconds THEN consecutive_errors + 1 ELSE 0>>

\* The counters run_bot is re-entered with after a conflict.
ConflictRestart == <<restart_count + 1, consecutive_errors + 1>>

\* run_delete_webhook(), sleep 5 or 15, run_bot(restart_count+1, consecutive_errors+1).
PostDelete ==
    /\ UNCHANGED <<botVars, config>>
    /\ UNCHANGED <<stderr_pipe, written, console>>
    /\ pc = "postdelete"
    /\ \E ok \in BOOLEAN :
        /\ delete_runs' = delete_runs + 1
        /\ delete_ok' = ok
        /\ last_sleep' = IF ok THEN 5 ELSE 15
        /\ restart_count' = ConflictRestart[1]
        /\ consecutive_errors' = ConflictRestart[2]
    /\ cause' = "conflict"
    /\ fast_run' = 0
    /\ run_base' = consecutive_errors'
    /\ pc' = "guard"
    /\ UNCHANGED <<child, returncode, run_time, stderr_queue,
                   webhook_error_detected, emitted, spawns, cooldowns>>

\* A limit that counts a run of exactly 10 seconds as quick.
QuickCrash_inclusive == run_time <= quick_crash_seconds

\* if run_time < 10
QuickCrash == run_time < quick_crash_seconds

Failed_always == TRUE

\* returncode != 0
Failed == returncode # 0

CrashRestart_swapped ==
    IF QuickCrash THEN <<restart_count + 1, 0>>
                  ELSE <<restart_count + 1, consecutive_errors + 1>>

\* A restart that is not counted.
CrashRestart_uncounted ==
    IF QuickCrash THEN <<restart_count, consecutive_errors + 1>>
                  ELSE <<restart_count, 0>>

\* The counters run_bot is re-entered with after the child failed on its own.
CrashRestart ==
    IF QuickCrash THEN <<restart_count + 1, consecutive_errors + 1>>
                  ELSE <<restart_count + 1, 0>>

\* The else branch: process.wait(), drain what is left, branch on the code.
WaitChild ==
    /\ UNCHANGED <<botVars, config>>
    /\ pc = "wait"
    /\ child # "running"
    /\ console' = console \o stderr_queue
    /\ stderr_queue' = <<>>
    /\ UNCHANGED <<stderr_pipe, written>>
    /\ IF Failed
          THEN /\ restart_count' = CrashRestart[1]
               /\ consecutive_errors' = CrashRestart[2]
               /\ cause' = IF QuickCrash THEN "quick" ELSE "slow"
               /\ fast_run' = IF QuickCrash THEN fast_run + 1 ELSE 0
               /\ run_base' = IF QuickCrash
                                 THEN (IF fast_run = 0 THEN consecutive_errors
                                                       ELSE run_base)
                                 ELSE consecutive_errors
               /\ pc' = "guard"
          ELSE /\ pc' = "done"
               /\ cause' = "clean"
               /\ UNCHANGED <<restart_count, consecutive_errors, fast_run, run_base>>
    /\ UNCHANGED <<child, returncode, run_time, webhook_error_detected, emitted,
                   spawns, cooldowns, delete_runs, delete_ok, last_sleep>>

\* The child writes a line to its stderr pipe.
ChildEmit ==
    /\ UNCHANGED <<botVars, config>>
    /\ child = "running"
    /\ emitted < MaxLines
    /\ \E line \in StderrLines :
        /\ stderr_pipe' = Append(stderr_pipe, line)
        /\ written' = Append(written, line)
    /\ emitted' = emitted + 1
    /\ UNCHANGED <<delete_ok, last_sleep, pc, restart_count, consecutive_errors, child, returncode,
                   run_time, webhook_error_detected, spawns, cooldowns,
                   delete_runs, cause, fast_run, run_base, stderr_queue, console>>

\* enqueue_output: the reader thread takes the next line from the pipe and
\* puts it on the queue, while the child runs and after it has ended.  It is
\* a daemon thread: it ends when run_bot has returned to __main__.
ReaderRead ==
    /\ UNCHANGED <<botVars, config>>
    /\ pc # "done"
    /\ stderr_pipe # <<>>
    /\ stderr_queue' = Append(stderr_queue, Head(stderr_pipe))
    /\ stderr_pipe' = Tail(stderr_pipe)
    /\ UNCHANGED <<delete_ok, last_sleep, pc, restart_count, consecutive_errors, child, returncode,
                   run_time, webhook_error_detected, emitted, spawns, cooldowns,
                   delete_runs, cause, fast_run, run_base, written, console>>

\* The child ends on its own.
ChildExit ==
    /\ UNCHANGED <<botVars, config>>
    /\ UNCHANGED <<stderr_pipe, written, console>>
    /\ child = "running"
    /\ \E code \in main_exit(config) : returncode' = code
    /\ child' = "exited"
    /\ UNCHANGED <<delete_ok, last_sleep, pc, restart_count, consecutive_errors, run_time, stderr_queue,
                   webhook_error_detected, emitted, spawns, cooldowns,
                   delete_runs, cause, fast_run, run_base>>



(***************************************************************************)
(* prediction_bot.py: text                                                 *)
(***************************************************************************)
UpperLetters == <<"A","B","C","D","E","F","G","H","I","J","K","L","M",
                  "N","O","P","Q","R","S","T","U","V","W","X","Y","Z">>
LowerLetters == <<"a","b","c","d","e","f","g","h","i","j","k","l","m",
                  "n","o","p","q","r","s","t","u","v","w","x","y","z">>
DigitChars == <<"0","1","2","3","4","5","6","7","8","9">>

\* str.lower() on one character.
lower_char(c) ==
    IF \E i \in DOMAIN UpperLetters : UpperLetters[i] = c
       THEN LowerLetters[CHOOSE i \in DOMAIN UpperLetters : UpperLetters[i] = c]
       ELSE c

\* str.lower()
lower(s) == [i \in 1..Len(s) |-> lower_char(s[i])]

RECURSIVE lstrip(_)
lstrip(s) == IF s # <<>> /\ Head(s) = " " THEN lstrip(Tail(s)) ELSE s

RECURSIVE rstrip(_)
rstrip(s) ==
    IF s # <<>> /\ s[Len(s)] = " " THEN rstrip(SubSeq(s, 1, Len(s) - 1)) ELSE s

\* str.strip()
strip(s) == rstrip(lstrip(s))

\* The first position at which sep occurs in s, 0 when it does not.
find(s, sep) ==
    LET hits == {i \in 1..(Len(s) - Len(sep) + 1) :
                    SubSeq(s, i, i + Len(sep) - 1) = sep}
    IN  IF hits = {} THEN 0 ELSE CHOOSE i \in hits : \A j \in hits : i <= j

\* str.split(sep)
RECURSIVE split(_, _)
split(s, sep) ==
    LET i == find(s, sep)
    IN  IF i = 0 THEN <<s>>
        ELSE <<SubSeq(s, 1, i - 1)>> \o split(SubSeq(s, i + Len(sep), Len(s)), sep)

\* sub in s
contains(s, sub) == find(s, sub) # 0

\* str() of a non-negative int.
RECURSIVE str_int(_)
str_int(n) ==
    IF n < 10 THEN <<DigitChars[n + 1]>>
    ELSE str_int(n \div 10) \o <<DigitChars[(n % 10) + 1]>>

is_digits(s) ==
    /\ s # <<>>
    /\ \A i \in 1..Len(s) : \E d \in DOMAIN DigitChars : DigitChars[d] = s[i]

RECURSIVE int_str(_)
int_str(s) ==
    IF s = <<>> THEN 0
    ELSE 10 * int_str(SubSeq(s, 1, Len(s) - 1))
         + (CHOOSE d \in DOMAIN DigitChars : DigitChars[d] = s[Len(s)]) - 1

\* The numerals of one or two digits, with their values worked out once.
numerals == {str_int(n) : n \in 0..99}
numeral_value == [c \in numerals |-> int_str(c)]

\* What get_all_records makes of a cell: a number when the text is one.
numericise(cell) ==
    IF cell \in numerals THEN numeral_value[cell]
    ELSE IF is_digits(cell) THEN int_str(cell) ELSE cell

(***************************************************************************)
(* prediction_bot.py: the schedule, the users, the inputs                  *)
(***************************************************************************)
VsSep == <<" ","v","s"," ">>
Mi == <<"M","i">>
Cs == <<"C","s">>
Rc == <<"R","c">>

\* ipl_schedule.csv as loaded: a league match, a play-off match whose teams
\* are known, and a play-off match whose teams are not.
schedule_mapping ==
    (1 :> [Teams |-> Mi \o VsSep \o Cs]) @@
    (71 :> [Teams |-> Cs \o VsSep \o Rc]) @@
    (72 :> [Teams |-> <<"F","i","n","a","l">>])

\* Match numbers a command can name: the scheduled ones and one that is not.
MatchArgs == DOMAIN schedule_mapping \cup {3}

\* Display names (user.full_name): one user under two spellings, and another.
Al == <<"A","l">>
AlToo == <<"a","L"," ">>
Bo == <<"B","o">>
UserNames == {Al, AlToo, Bo}

\* option_ids of a poll answer: a retraction, either team, an index past both
\* and an index before both.
OptionIds == {<<>>, <<0>>, <<1>>, <<2>>, <<-1>>}

\* Winners an admin may type: teams in another casing or as scheduled.
WinnerArgs == {<<"m","i">>, <<"C","S">>, Rc}

ADMIN_USER_IDS == {384743804}
UserIds == ADMIN_USER_IDS \cup {7}

\* No match above this number can be scored.
max_scored_match == 70

\* Updates (poll answers and commands) handled in one run of the model.
MaxEvents == 2

\* Polls Telegram creates for the bot, those of the season included.
MaxPolls == 4

\* Store calls that can raise: opening a sheet, reading the poll map, reading
\* the predictions, sheet.clear(), sheet.update().
Faults == {"none", "open", "pollmap", "read", "clear", "update"}

\* What the update before this one did, kept when it was an answer to the
\* same poll by the same user.
NoBefore == [opts |-> <<>>, result |-> "none"]

NoEvent ==
    [op |-> "none", poll |-> <<>>, user |-> <<>>, opts |-> <<>>, match |-> 0,
     winner |-> <<>>, uid |-> 0, fault |-> "none", result |-> "none",
     before |-> NoBefore, sent |-> "none", board |-> <<>>]

\* An event loop with no handler on it.
NoLoop == [tasks |-> <<>>, start |-> <<>>]

\* A row of the Predictions sheet as save_predictions_df writes it.
SheetRow(match_no, username, prediction, correct) ==
    [MatchNo |-> str_int(match_no), Match |-> schedule_mapping[match_no].Teams,
     Username |-> username, Prediction |-> prediction, Correct |-> str_int(correct)]

\* The sheets of a season under way: match 1 polled, answered and scored,
\* match 71 polled and answered, and a poll left from a match that is no
\* longer in the schedule.
SeasonPredictions ==
    << SheetRow(1, Al, Mi, 1), SheetRow(1, Bo, Cs, 0), SheetRow(71, Bo, Cs, 0) >>

SeasonPolls ==
    << [poll_id |-> str_int(1), MatchNo |-> str_int(1)],
       [poll_id |-> str_int(2), MatchNo |-> str_int(71)],
       [poll_id |-> str_int(3), MatchNo |-> str_int(3)] >>

\* The bot starts on the sheets as they are: new and empty, or those of a
\* season under way, with or without predictions.
BotInit ==
    /\ \/ /\ poll_sheet = <<>>
          /\ pred_sheet = <<>>
       \/ /\ poll_sheet = SeasonPolls
          /\ pred_sheet \in {<<>>, SeasonPredictions}
    /\ polls_sent = Len(poll_sheet)
    /\ last = NoEvent
    /\ events = 0
    /\ loop = NoLoop

(***************************************************************************)
(* prediction_bot.py: the sheets                                           *)
(***************************************************************************)

\* get_predictions_df: get_all_records, or an empty frame when it raises.
get_predictions_df(sheet, fault) ==
    IF fault = "read" THEN <<>>
    ELSE [i \in 1..Len(sheet) |->
            [MatchNo |-> numericise(sheet[i].MatchNo),
             Match |-> sheet[i].Match,
             Username |-> sheet[i].Username,
             Prediction |-> sheet[i].Prediction,
             Correct |-> numericise(sheet[i].Correct)]]

\* df.astype(str).values.tolist()
astype_str(df) ==
    [i \in 1..Len(df) |->
        [MatchNo |-> str_int(df[i].MatchNo),
         Match |-> df[i].Match,
         Username |-> df[i].Username,
         Prediction |-> df[i].Prediction,
         Correct |-> str_int(df[i].Correct)]]

\* save_predictions_df: sheet.clear() then sheet.update(); either may raise.
save_predictions_df(sheet, df, fault) ==
    IF fault = "clear" THEN [sheet |-> sheet, raised |-> TRUE]
    ELSE IF fault = "update" THEN [sheet |-> <<>>, raised |-> TRUE]
    ELSE [sheet |-> astype_str(df), raised |-> FALSE]

\* A lookup that takes the newest poll of the map for one it does not hold.
poll_map_get_newest(rows, poll_id, fault) ==
    LET hits == {i \in 1..Len(rows) : rows[i].poll_id = poll_id}
    IN  IF fault = "pollmap" \/ rows = <<>> THEN 0
        ELSE IF hits = {} THEN numericise(rows[Len(rows)].MatchNo)
        ELSE numericise(rows[CHOOSE i \in hits : \A j \in hits : j <= i].MatchNo)

\* get_poll_map followed by poll_map.get(str(poll_id)): 0 stands for None.
poll_map_get(rows, poll_id, fault) ==
    LET hits == {i \in 1..Len(rows) :
                    /\ rows[i].poll_id # <<>>
                    /\ numericise(rows[i].MatchNo) # 0
                    /\ rows[i].poll_id = poll_id}
    IN  IF fault = "pollmap" \/ hits = {} THEN 0
        ELSE numericise(rows[CHOOSE i \in hits : \A j \in hits : j <= i].MatchNo)

\* A save that keeps only the newest poll of a match.
save_poll_id_replacing(rows, poll_id, match_no) ==
    Append(SelectSeq(rows, LAMBDA r : r.MatchNo # str_int(match_no)),
           [poll_id |-> poll_id, MatchNo |-> str_int(match_no)])

\* save_poll_id: sheet.append_row([str(poll_id), match_no])
save_poll_id(rows, poll_id, match_no) ==
    Append(rows, [poll_id |-> poll_id, MatchNo |-> str_int(match_no)])

\* A test that knows the play-offs but not the final.
undecided_playoffs(match_name) ==
    \/ contains(match_name, <<"Q","u","a","l","i","f","i","e","r">>)
    \/ contains(match_name, <<"E","l","i","m","i","n","a","t","o","r">>)

\* "Qualifier" in match_name or "Eliminator" in match_name or "Final" in match_name
undecided(match_name) ==
    \/ contains(match_name, <<"Q","u","a","l","i","f","i","e","r">>)
    \/ contains(match_name, <<"E","l","i","m","i","n","a","t","o","r">>)
    \/ contains(match_name, <<"F","i","n","a","l">>)

(***************************************************************************)
(* prediction_bot.py: handle_poll_answer                                   *)
(***************************************************************************)

\* username.strip().lower(), worked out once for every display name.
stripped_lower == [name \in UserNames |-> lower(strip(name))]

\* A lookup name that keeps the case: username.strip()
norm_name_cased(name) == strip(name)

\* The name under which a user is looked up.
norm_name(name) == stripped_lower[name]

\* row_mask: same match, same user ignoring case and surrounding blanks.
row_mask(r, match_no, username) ==
    /\ r.MatchNo = match_no
    /\ norm_name(r.Username) = norm_name(username)

any_row(df, match_no, username) ==
    \E i \in 1..Len(df) : row_mask(df[i], match_no, username)

Outcome(sheet, fault, result) == [sheet |-> sheet, fault |-> fault, result |-> result]

\* The row a first vote adds.
new_row(match_no, match_display_name, username, chosen_team) ==
    [MatchNo |-> match_no, Match |-> match_display_name, Username |-> username,
     Prediction |-> chosen_team, Correct |-> 0]

\* An update that resets Correct only when the team changes.
update_rows_if_changed(df, match_no, username, chosen_team) ==
    [i \in 1..Len(df) |->
        IF row_mask(df[i], match_no, username) /\ df[i].Prediction # chosen_team
           THEN [df[i] EXCEPT !.Prediction = chosen_team, !.Correct = 0]
           ELSE df[i]]

\* An update that leaves Correct as it was.
update_rows_scored(df, match_no, username, chosen_team) ==
    [i \in 1..Len(df) |->
        IF row_mask(df[i], match_no, username)
           THEN [df[i] EXCEPT !.Prediction = chosen_team]
           ELSE df[i]]

\* df.loc[row_mask, "Prediction"] = chosen_team; df.loc[row_mask, "Correct"] = 0
update_rows(df, match_no, username, chosen_team) ==
    [i \in 1..Len(df) |->
        IF row_mask(df[i], match_no, username)
           THEN [df[i] EXCEPT !.Prediction = chosen_team, !.Correct = 0]
           ELSE df[i]]

\* A retraction that keeps the row and sets its Correct to 0.
retract_zeroed(sheet, match_no, username, fault) ==
    LET df == get_predictions_df(sheet, fault)
        hit == IF fault = "read" THEN "read" ELSE "none"
    IN  IF df = <<>> THEN Outcome(sheet, hit, "NothingToRetract")
        ELSE IF any_row(df, match_no, username)
             THEN LET kept == [i \in 1..Len(df) |->
                                 IF row_mask(df[i], match_no, username)
                                    THEN [df[i] EXCEPT !.Correct = 0]
                                    ELSE df[i]]
                      saved == save_predictions_df(sheet, kept, fault)
                  IN  IF saved.raised
                         THEN Outcome(saved.sheet, fault, "RetractError")
                         ELSE Outcome(saved.sheet, "none", "Retracted")
             ELSE Outcome(sheet, "none", "NothingToRetract")

\* The retraction branch (empty option_ids).
retract(sheet, match_no, username, fault) ==
    LET df == get_predictions_df(sheet, fault)
        hit == IF fault = "read" THEN "read" ELSE "none"
    IN  IF df = <<>> THEN Outcome(sheet, hit, "NothingToRetract")
        ELSE IF any_row(df, match_no, username)
             THEN LET kept == SelectSeq(df, LAMBDA r : ~ row_mask(r, match_no, username))
                      saved == save_predictions_df(sheet, kept, fault)
                  IN  IF saved.raised
                         THEN Outcome(saved.sheet, fault, "RetractError")
                         ELSE Outcome(saved.sheet, "none", "Retracted")
             ELSE Outcome(sheet, "none", "NothingToRetract")

\* match_info["Teams"].split(" vs "), worked out once for every match.
team_options == [m \in DOMAIN schedule_mapping |-> split(schedule_mapping[m].Teams, VsSep)]

\* seq[i] of a Python list, for an index the list has: from the end when i < 0.
py_item(seq, i) == IF i < 0 THEN seq[Len(seq) + i + 1] ELSE seq[i + 1]

\* The vote branch, from the option index on.
vote(sheet, match_no, teams, username, option_ids, fault) ==
    LET chosen_option_index == option_ids[1]
        options == team_options[match_no]
    IN  IF chosen_option_index >= Len(options)
           THEN Outcome(sheet, "none", "InvalidOption")
        ELSE IF chosen_option_index < 0 - Len(options)
           THEN Outcome(sheet, "none", "IndexError")
        ELSE
        LET chosen_team == strip(py_item(options, chosen_option_index))
            df == get_predictions_df(sheet, fault)
            found == any_row(df, match_no, username)
            changed == IF found
                          THEN update_rows(df, match_no, username, chosen_team)
                          ELSE Append(df, new_row(match_no, teams, username, chosen_team))
            saved == save_predictions_df(sheet, changed, fault)
        IN  IF saved.raised THEN Outcome(saved.sheet, fault, "VoteError")
            ELSE Outcome(saved.sheet,
                         IF fault = "read" THEN "read" ELSE "none",
                         IF found THEN "Updated" ELSE "Recorded")

\* handle_poll_answer, from the sheets to the save.
handle_poll_answer(sheet, rows, poll_id, username, option_ids, fault) ==
    IF fault = "open" THEN Outcome(sheet, "open", "SheetError")
    ELSE
    LET match_no == poll_map_get(rows, poll_id, fault) IN
    IF match_no = 0
       THEN Outcome(sheet, IF fault = "pollmap" THEN fault ELSE "none", "UnknownPoll")
    ELSE IF match_no \notin DOMAIN schedule_mapping
       THEN Outcome(sheet, "none", "UnknownMatch")
    ELSE IF option_ids = <<>>
       THEN retract(sheet, match_no, username, fault)
    ELSE vote(sheet, match_no, schedule_mapping[match_no].Teams, username,
              option_ids, fault)

\* Poll ids an answer can carry: those Telegram has created, and a foreign one.
poll_id_of(n) == str_int(n)
AnswerPollIds == {poll_id_of(n) : n \in 1..polls_sent} \cup {poll_id_of(9)}

\* A PollAnswer update arrives and is handled.
PollAnswer ==
    /\ events < MaxEvents
    /\ events' = events + 1
    /\ \E poll_id \in AnswerPollIds, username \in UserNames,
       option_ids \in OptionIds, fault \in Faults :
        LET out == handle_poll_answer(pred_sheet, poll_sheet, poll_id, username,
                                      option_ids, fault)
        IN  /\ out.fault = fault
            /\ pred_sheet' = out.sheet
            /\ last' = [op |-> "answer", poll |-> poll_id, user |-> username,
                        opts |-> option_ids,
                        match |-> poll_map_get(poll_sheet, poll_id, fault),
                        winner |-> <<>>, uid |-> 0,
                        fault |-> out.fault, result |-> out.result,
                        before |-> IF /\ last.op = "answer"
                                      /\ last.poll = poll_id
                                      /\ last.user = username
                                      THEN [opts |-> last.opts, result |-> last.result]
                                      ELSE NoBefore,
                        sent |-> "none", board |-> <<>>]
            /\ UNCHANGED <<poll_sheet, polls_sent, supVars, loop>>

(***************************************************************************)
(* prediction_bot.py: startpoll                                            *)
(***************************************************************************)

\* What can fail once the teams are known: Telegram refuses the poll, the
\* poll map cannot be opened, its append_row raises.
PollFaults == {"none", "send", "open", "append"}

\* From the undecided test to save_poll_id, shared by startpoll and
\* scheduled_poll_callback: how the attempt to post the poll of a scheduled
\* match ends.
post_poll(match_name, fault) ==
    IF undecided(match_name) THEN "Undecided"
    ELSE IF Len(split(match_name, VsSep)) # 2 THEN "BadTeams"
    ELSE IF fault = "send" THEN "SendError"
    ELSE IF fault \in {"open", "append"} THEN "PollUnmapped"
    ELSE "PollSent"

\* The effect of post_poll on the chat's polls and on the poll map.
PostPoll(match_no, result) ==
    IF result \in {"PollSent", "PollUnmapped"}
       THEN /\ polls_sent < MaxPolls
            /\ polls_sent' = polls_sent + 1
            /\ poll_sheet' = IF result = "PollSent"
                                THEN save_poll_id(poll_sheet,
                                                  poll_id_of(polls_sent + 1),
                                                  match_no)
                                ELSE poll_sheet
       ELSE UNCHANGED <<poll_sheet, polls_sent>>

\* /startpoll <match_no>: the poll is sent and its id is appended to the map.
\* Every refusal is a reply_text; an exception of send_poll is only logged.
StartPoll ==
    /\ events < MaxEvents
    /\ events' = events + 1
    /\ \E match_no \in MatchArgs, fault \in PollFaults :
        LET known == match_no \in DOMAIN schedule_mapping
            result == IF ~ known THEN "UnknownMatch"
                      ELSE post_poll(schedule_mapping[match_no].Teams, fault)
        IN  /\ PostPoll(match_no, result)
            /\ last' = [NoEvent EXCEPT
                          !.op = "startpoll", !.match = match_no,
                          !.result = result,
                          !.fault = IF result \in {"SendError", "PollUnmapped"}
                                       THEN fault ELSE "none",
                          !.sent = CASE result \in {"PollSent", "PollUnmapped"} -> "poll"
                                     [] result = "SendError" -> "none"
                                     [] OTHER -> "reply"]
            /\ UNCHANGED <<pred_sheet, supVars, loop>>

(***************************************************************************)
(* prediction_bot.py: scheduled_poll_callback                              *)
(***************************************************************************)

\* The job that schedule_polls queued for a match of the schedule fires.  An
\* undecided match gets a send_message to the group; wrong teams and every
\* exception are only logged.
ScheduledPoll ==
    /\ events < MaxEvents
    /\ events' = events + 1
    /\ \E match_no \in DOMAIN schedule_mapping, fault \in PollFaults :
        LET result == post_poll(schedule_mapping[match_no].Teams, fault)
        IN  /\ PostPoll(match_no, result)
            /\ last' = [NoEvent EXCEPT
                          !.op = "job", !.match = match_no,
                          !.result = result,
                          !.fault = IF result \in {"SendError", "PollUnmapped"}
                                       THEN fault ELSE "none",
                          !.sent = CASE result \in {"PollSent", "PollUnmapped"} -> "poll"
                                     [] result = "Undecided" -> "info"
                                     [] OTHER -> "none"]
            /\ UNCHANGED <<pred_sheet, supVars, loop>>

(***************************************************************************)
(* prediction_bot.py: leaderboard                                          *)
(***************************************************************************)

\* df[df.Username == name]["Correct"].sum(), over the first n rows.
RECURSIVE correct_sum(_, _, _)
correct_sum(df, name, n) ==
    IF n = 0 THEN 0
    ELSE correct_sum(df, name, n - 1)
           + (IF df[n].Username = name THEN df[n].Correct ELSE 0)

\* df.dropna(subset=['Username']).groupby("Username")["Correct"].sum(): one
\* entry for every text found in the Username column, the empty text of a
\* blank cell among them (get_all_records reads it as '', which is not NaN).
groupby_sum(df) ==
    { [Username |-> name, Correct |-> correct_sum(df, name, Len(df))] :
        name \in {df[i].Username : i \in 1..Len(df)} }

\* .sort_values("Correct", ascending=False): the default kind is quicksort,
\* which is not stable, so entries of equal score come in any order.
RECURSIVE sort_values(_)
sort_values(lb) ==
    IF lb = {} THEN { <<>> }
    ELSE LET top == {g \in lb : \A h \in lb : g.Correct >= h.Correct}
         IN  UNION { { <<g>> \o rest : rest \in sort_values(lb \ {g}) } : g \in top }

\* What leaderboard can fail on: opening the sheet, reading its records.
BoardFaults == {"none", "open", "read"}

\* leaderboard, from get_sheet to the message: the replies it may end with.
leaderboard(sheet, fault) ==
    IF fault = "open" THEN { [result |-> "BoardError", board |-> <<>>] }
    ELSE LET df == get_predictions_df(sheet, fault)
         IN  IF df = <<>> THEN { [result |-> "NoPredictions", board |-> <<>>] }
             ELSE { [result |-> "Board", board |-> lb] :
                      lb \in sort_values(groupby_sum(df)) }

\* /leaderboard: every path ends in a reply_text.
Leaderboard ==
    /\ events < MaxEvents
    /\ events' = events + 1
    /\ \E fault \in BoardFaults :
         \E out \in leaderboard(pred_sheet, fault) :
            last' = [NoEvent EXCEPT !.op = "leaderboard", !.fault = fault,
                                    !.result = out.result, !.board = out.board,
                                    !.sent = "reply"]
    /\ UNCHANGED <<pred_sheet, poll_sheet, polls_sent, supVars, loop>>

(***************************************************************************)
(* prediction_bot.py: score_match                                          *)
(***************************************************************************)

\* 1 if str(prediction).strip().lower() == winner.lower() else 0
mark(prediction, winner) ==
    IF lower(strip(prediction)) = lower(winner) THEN 1 ELSE 0

\* A scoring that marks the right rows and leaves the others as they were.
mark_rows_winners_only(df, match_no, winner) ==
    [i \in 1..Len(df) |->
        IF df[i].MatchNo = match_no /\ mark(df[i].Prediction, winner) = 1
           THEN [df[i] EXCEPT !.Correct = 1]
           ELSE df[i]]

\* df.loc[match_mask, "Correct"] = df.loc[match_mask, "Prediction"].apply(...)
mark_rows(df, match_no, winner) ==
    [i \in 1..Len(df) |->
        IF df[i].MatchNo = match_no
           THEN [df[i] EXCEPT !.Correct = mark(df[i].Prediction, winner)]
           ELSE df[i]]

\* A threshold above the last match of the season.
too_late_after_final(match_no) == match_no > max_scored_match + 4

\* if match_no > 70
too_late_to_score(match_no) == match_no > max_scored_match

\* A test that lets every user through.
not_admin_nobody(uid) == FALSE

\* if update.effective_user.id not in ADMIN_USER_IDS
not_admin(uid) == uid \notin ADMIN_USER_IDS

\* score_match, from the admin test to the save.
score_match(sheet, uid, match_no, winner_arg, fault) ==
    IF not_admin(uid) THEN Outcome(sheet, "none", "NotAdmin")
    ELSE IF match_no \notin DOMAIN schedule_mapping
       THEN Outcome(sheet, "none", "UnknownMatch")
    ELSE IF too_late_to_score(match_no) THEN Outcome(sheet, "none", "Undecided")
    ELSE
    LET split_teams == team_options[match_no]
        teams == [i \in 1..Len(split_teams) |-> strip(split_teams[i])]
        typed == strip(winner_arg)
    IN  IF \A i \in 1..Len(teams) : lower(teams[i]) # lower(typed)
           THEN Outcome(sheet, "none",
                        IF Len(teams) < 2 THEN "Crashed" ELSE "InvalidWinner")
        ELSE IF fault = "open" THEN Outcome(sheet, "open", "ScoreError")
        ELSE
        LET winner == IF lower(typed) = lower(teams[1]) THEN teams[1] ELSE teams[2]
            df == get_predictions_df(sheet, fault)
            hit == IF fault = "read" THEN "read" ELSE "none"
        IN  IF df = <<>> THEN Outcome(sheet, hit, "NoPredictions")
            ELSE IF \A i \in 1..Len(df) : df[i].MatchNo # match_no
               THEN Outcome(sheet, "none", "NoPredictionsForMatch")
            ELSE LET saved == save_predictions_df(
                                  sheet, mark_rows(df, match_no, winner), fault)
                 IN  IF saved.raised THEN Outcome(saved.sheet, fault, "ScoreError")
                     ELSE Outcome(saved.sheet, "none", "Scored")

\* /score <match_no> <winner> arrives and is handled.
ScoreMatch ==
    /\ events < MaxEvents
    /\ events' = events + 1
    /\ \E uid \in UserIds, match_no \in MatchArgs, winner_arg \in WinnerArgs,
       fault \in Faults \ {"pollmap"} :
        LET out == score_match(pred_sheet, uid, match_no, winner_arg, fault)
        IN  /\ out.fault = fault
            /\ pred_sheet' = out.sheet
            /\ last' = [op |-> "score", poll |-> <<>>, user |-> <<>>,
                        opts |-> <<>>, match |-> match_no, winner |-> winner_arg,
                        uid |-> uid, fault |-> out.fault, result |-> out.result,
                        before |-> NoBefore,
                        sent |-> IF out.result = "Crashed" THEN "none" ELSE "reply",
                        board |-> <<>>]
            /\ UNCHANGED <<poll_sheet, polls_sent, supVars, loop>>

(***************************************************************************)
(* prediction_bot.py: the handlers as coroutines on one event loop         *)
(***************************************************************************)

\* Handlers the loop runs side by side.
MaxTasks == 2

\* A handler is at 0 when it is entered, at 1 once it has read the
\* Predictions sheet (the job: once it has asked Telegram for its poll), at 2
\* once it has saved the sheet, at 3 when it has returned.
Task(kind, poll, user, opts, match, winner) ==
    [kind |-> kind, poll |-> poll, user |-> user, opts |-> opts,
     match |-> match, winner |-> winner, at |-> 0, df |-> <<>>]

\* The updates and jobs of the loop: answers to two polls of the season by
\* every user, scores of match 1 by the admin, jobs of a decided and of an
\* undecided match.
LoopTasks ==
    {Task("answer", poll_id_of(n), username, option_ids, 0, <<>>) :
        n \in 1..2, username \in UserNames, option_ids \in {<<>>, <<0>>, <<1>>}}
    \cup {Task("score", <<>>, <<>>, <<>>, 1, winner_arg) : winner_arg \in WinnerArgs}
    \cup {Task("job", <<>>, <<>>, <<>>, match_no, <<>>) : match_no \in {1, 72}}

\* Results of a handler that end in save_predictions_df.
Saving == {"Recorded", "Updated", "Retracted", "Scored"}

\* A handler's store work on the frame df it has read.
run_handler(task, df, rows) ==
    CASE task.kind = "answer" ->
            handle_poll_answer(df, rows, task.poll, task.user, task.opts, "none")
      [] task.kind = "score" ->
            score_match(df, CHOOSE uid \in ADMIN_USER_IDS : TRUE, task.match,
                        task.winner, "none")
      [] OTHER -> Outcome(df, "none", "none")

\* A handler that awaits between reading the sheet and saving it.
awaits_before_save(task) ==
    CASE task.kind = "answer" -> {1}
      [] task.kind = "score" -> {1, 2}
      [] OTHER -> {1}

\* The positions at which a handler is suspended in an await: an answer
\* nowhere, a score in the reply after its save (or before its return, when it
\* saves nothing), the job in send_poll or send_message.
awaits(task) ==
    CASE task.kind = "answer" -> {}
      [] task.kind = "score" -> {2}
      [] OTHER -> IF post_poll(schedule_mapping[task.match].Teams, "none")
                        \in {"PollSent", "Undecided"}
                     THEN {1} ELSE {}

\* Where a handler at task.at stops next: its next await, or its return.
next_stop(task) ==
    LET later == {q \in awaits(task) \cup {3} : q > task.at}
    IN  CHOOSE q \in later : \A r \in later : q <= r

\* The loop runs handler i from where it is to its next await or its return.
RunTask(i) ==
    LET task == loop.tasks[i]
        stop == next_stop(task)
        df == IF task.at < 1 THEN pred_sheet ELSE task.df
        out == run_handler(task, df, poll_sheet)
        saves == task.at < 2 /\ stop >= 2 /\ out.result \in Saving
        polled == /\ task.kind = "job"
                  /\ post_poll(schedule_mapping[task.match].Teams, "none") = "PollSent"
        sends == polled /\ task.at < 1
        maps == polled /\ stop = 3
        poll_id == IF sends THEN poll_id_of(polls_sent + 1) ELSE task.poll
    IN  /\ task.at < 3
        /\ pred_sheet' = IF saves THEN out.sheet ELSE pred_sheet
        /\ polls_sent' = IF sends THEN polls_sent + 1 ELSE polls_sent
        /\ poll_sheet' = IF maps THEN save_poll_id(poll_sheet, poll_id, task.match)
                         ELSE poll_sheet
        /\ loop' = [loop EXCEPT
                      !.tasks[i] = [task EXCEPT !.at = stop, !.poll = poll_id,
                                                !.df = IF stop = 1 THEN df ELSE <<>>]]
        /\ UNCHANGED <<last, events, supVars>>

\* A poll answer on the loop is handled.
AnswerTask == \E i \in DOMAIN loop.tasks : loop.tasks[i].kind = "answer" /\ RunTask(i)

\* A /score command on the loop goes on.
ScoreTask == \E i \in DOMAIN loop.tasks : loop.tasks[i].kind = "score" /\ RunTask(i)

\* A scheduled poll job on the loop goes on.
JobTask == \E i \in DOMAIN loop.tasks : loop.tasks[i].kind = "job" /\ RunTask(i)

\* One bot process on the sheets of a season under way, with up to MaxTasks
\* updates and jobs on its loop.
LoopInit ==
    /\ SupInit
    /\ poll_sheet = SeasonPolls
    /\ pred_sheet \in {<<>>, SeasonPredictions}
    /\ polls_sent = Len(poll_sheet)
    /\ last = NoEvent
    /\ events = 0
    /\ \E n \in 1..MaxTasks :
         loop \in [tasks : [1..n -> LoopTasks], start : {pred_sheet}]

LoopNext ==
    \/ AnswerTask
    \/ ScoreTask
    \/ JobTask

LoopSpec == LoopInit /\ [][LoopNext]_vars

Init == SupInit /\ BotInit

Next ==
    \/ PollAnswer
    \/ StartPoll
    \/ ScheduledPoll
    \/ ScoreMatch
    \/ Leaderboard

Spec == Init /\ [][Next]_vars

\* The leaderboard on its own, over every small Predictions sheet: row i is a
\* prediction for match i by one of three users, scored right or wrong, and
\* the last row may be one whose Username cell was left blank.
MaxRows == 5
Bob == <<"B","o","b">>
Amy == <<"A","m","y">>
Cy == <<"C","y">>
RankNames == {Bob, Amy, Cy}

RankRow(match_no, username, correct) ==
    [MatchNo |-> str_int(match_no), Match |-> schedule_mapping[1].Teams,
     Username |-> username, Prediction |-> Mi, Correct |-> str_int(correct)]

\* RankRow, worked out once for every row.
rank_row ==
    [match_no \in 1..MaxRows, username \in RankNames \cup {<<>>}, correct \in {0, 1} |->
        RankRow(match_no, username, correct)]

\* The sheets of n rows that all carry a name.
NamedTables(n) ==
    { [i \in 1..n |-> rank_row[i, who[i], right[i]]] :
        who \in [1..n -> RankNames], right \in [1..n -> {0, 1}] }

\* The sheets of n rows.
RankTables(n) ==
    NamedTables(n) \cup
    (IF n = 0 THEN {}
     ELSE { Append(named, rank_row[n, <<>>, correct]) :
              named \in NamedTables(n - 1), correct \in {0, 1} })

RankInit ==
    /\ SupInit
    /\ \E n \in 0..MaxRows : pred_sheet \in RankTables(n)
    /\ poll_sheet = <<>>
    /\ polls_sent = 0
    /\ last = NoEvent
    /\ events = 0
    /\ loop = NoLoop

RankNext == Leaderboard

RankSpec == RankInit /\ [][RankNext]_vars

SupNext ==
    \/ MainDelete
    \/ CheckRestarts
    \/ CheckErrors
    \/ PreDelete1
    \/ PreDelete2
    \/ Spawn
    \/ LoopTest
    \/ Drain
    \/ AfterLoop
    \/ Terminate
    \/ PostDelete
    \/ WaitChild
    \/ ChildEmit
    \/ ReaderRead
    \/ ChildExit

SupSpec == Init /\ [][SupNext]_vars

\* The steps of the control thread of bot_manager.py.
SupControl ==
    \/ MainDelete \/ CheckRestarts \/ CheckErrors \/ PreDelete1 \/ PreDelete2
    \/ Spawn \/ LoopTest \/ Drain \/ AfterLoop \/ Terminate \/ PostDelete
    \/ WaitChild

\* The supervisor beside a bot on new sheets (it never looks at them), its
\* control thread running on and every child that is left running ending.
FairSupInit ==
    /\ SupInit
    /\ pred_sheet = <<>>
    /\ poll_sheet = <<>>
    /\ polls_sent = 0
    /\ last = NoEvent
    /\ events = 0
    /\ loop = NoLoop

\* The supervisor over a bot whose configuration is wrong.
StartInit ==
    /\ \E cfg \in ConfigErrors : SupBoot(cfg)
    /\ pred_sheet = <<>>
    /\ poll_sheet = <<>>
    /\ polls_sent = 0
    /\ last = NoEvent
    /\ events = 0
    /\ loop = NoLoop

StartSpec == StartInit /\ [][SupNext]_vars

FairSupSpec ==
    /\ FairSupInit
    /\ [][SupNext]_vars
    /\ WF_vars(SupControl)
    /\ WF_vars(ChildExit)

(***************************************************************************)
(* Supervisor properties                                                   *)
(***************************************************************************)

\* C4: once restart_count has reached max_restarts (10) the supervisor stops:
\* run_bot returns at its first test, whatever caused the restarts (conflict,
\* quick crash, slow crash), no child is spawned any more and none is running;
\* restart_count never passes 10 and at most 10 children are ever spawned.
C4_NoSpawnAfterBudget ==
    [][ /\ restart_count' <= max_restarts
        /\ spawns' <= max_restarts
        /\ (restart_count >= max_restarts /\ pc' # pc) =>
              /\ spawns' = spawns
              /\ child # "running" /\ child' # "running"
              /\ pc' = "done"
              /\ UNCHANGED <<restart_count, consecutive_errors, cooldowns, delete_runs>>
      ]_vars

\* The budget is used up after ten children, the last of which was stopped
\* for a conflict.
C4_Witness ==
    /\ pc = "done"
    /\ restart_count = max_restarts
    /\ spawns = max_restarts
    /\ cause = "conflict"

\* C5 as stated: whenever the last three child exits in a row were nonzero
\* and quick, consecutive_errors is 3 on the next entry to run_bot.
C5_Original ==
    (pc = "guard" /\ fast_run = 3) => consecutive_errors = 3

\* C5 (amended): three quick nonzero exits in a row that began with
\* consecutive_errors = 0 bring consecutive_errors to 3; below the restart
\* ceiling the next entry sleeps error_cooldown (60 s) exactly once and sets
\* consecutive_errors to 0 before the child is spawned; restart_count is not
\* reset by this and grows by exactly 1 with each re-entry of run_bot.
C5_FastCrashAccounting ==
    [][ /\ (pc' = "guard" /\ fast_run' = 3 /\ run_base' = 0) => consecutive_errors' = 3
        /\ (pc = "errors" /\ consecutive_errors >= max_consecutive_errors) =>
              /\ cooldowns' = cooldowns + 1
              /\ last_sleep' = error_cooldown
              /\ consecutive_errors' = 0
              /\ restart_count' = restart_count
              /\ spawns' = spawns
        /\ (pc \in {"delete1", "delete2", "spawn"}) =>
              /\ cooldowns' = cooldowns
              /\ consecutive_errors' = consecutive_errors
              /\ consecutive_errors < max_consecutive_errors
        /\ restart_count' \in {restart_count, restart_count + 1}
        /\ (pc' = "guard" /\ pc \in {"wait", "postdelete"}) =>
              restart_count' = restart_count + 1
      ]_vars

\* Three quick crashes from a fresh start, the cooldown taken once, and the
\* fourth child running with the error counter back at 0.
C5_Witness ==
    /\ pc = "poll"
    /\ child = "running"
    /\ fast_run = 3
    /\ run_base = 0
    /\ cooldowns = 1
    /\ last_sleep = error_cooldown
    /\ consecutive_errors = 0
    /\ restart_count = 3
    /\ spawns = 4

\* C6: when the child has ended on its own with exit code 0 and no marker was
\* read, run_bot returns: the supervisor is in its final state with the
\* counters, the spawn count and the cleanup count as they were, and from the
\* final state it takes no further step.
C6_CleanExitIsFinal ==
    [][ /\ (pc = "wait" /\ returncode = 0 /\ pc' # pc) =>
              /\ pc' = "done"
              /\ UNCHANGED <<restart_count, consecutive_errors, spawns,
                             delete_runs, cooldowns, child>>
        /\ pc # "done"
      ]_vars

\* A first child that ended with code 0: one spawn, no restart.
C6_Witness ==
    /\ pc = "done"
    /\ cause = "clean"
    /\ returncode = 0
    /\ child = "exited"
    /\ spawns = 1
    /\ restart_count = 0
    /\ ~ webhook_error_detected

\* C7: once the marker has been read the loop is left, the child is stopped
\* first (terminate, wait, kill), then run_delete_webhook runs once, and only
\* then run_bot is re-entered with restart_count + 1 and
\* consecutive_errors + 1, whatever the cleanup returned and whatever run
\* time was measured.
C7_ConflictHandling ==
    [][ /\ (webhook_error_detected' /\ ~ webhook_error_detected) => pc' = "after"
        /\ (pc = "after" /\ webhook_error_detected /\ pc' # pc) =>
              /\ pc' = "terminate"
              /\ UNCHANGED <<restart_count, consecutive_errors, spawns>>
        /\ (pc = "terminate" /\ pc' # pc) =>
              /\ pc' = "postdelete"
              /\ child' # "running"
              /\ delete_runs' = 0
              /\ UNCHANGED <<restart_count, consecutive_errors, spawns>>
        /\ (pc = "postdelete" /\ pc' # pc) =>
              /\ child # "running"
              /\ delete_runs' = 1
              /\ pc' = "guard"
              /\ cause' = "conflict"
              /\ restart_count' = restart_count + 1
              /\ consecutive_errors' = consecutive_errors + 1
              /\ spawns' = spawns
      ]_vars

\* A conflict restart after a long run with the cleanup failing.
C7_Witness ==
    /\ pc = "guard"
    /\ cause = "conflict"
    /\ delete_ok = FALSE
    /\ last_sleep = 15
    /\ run_time > quick_crash_seconds
    /\ child = "killed"
    /\ restart_count = 1
    /\ consecutive_errors = 1

\* C15: when the child has ended on its own with a nonzero code after a run
\* of 10 seconds or more, run_bot is re-entered with restart_count + 1 and
\* consecutive_errors 0, without a new child or a pause in between; the entry
\* that follows does not take the cooldown.
C15_SlowCrashResets ==
    [][ /\ (pc = "wait" /\ returncode # 0 /\ run_time >= quick_crash_seconds
            /\ pc' # pc) =>
              /\ pc' = "guard"
              /\ restart_count' = restart_count + 1
              /\ consecutive_errors' = 0
              /\ UNCHANGED <<spawns, cooldowns, last_sleep>>
        /\ (pc = "errors" /\ cause = "slow") =>
              /\ consecutive_errors = 0
              /\ cooldowns' = cooldowns
      ]_vars

\* Two quick crashes, then a crash after a long run: the two errors counted
\* are gone and no cooldown was taken.
C15_Witness ==
    /\ pc = "spawn"
    /\ cause = "slow"
    /\ run_base = 2
    /\ consecutive_errors = 0
    /\ restart_count = 3
    /\ cooldowns = 0
    /\ run_time >= quick_crash_seconds

\* C16: on every entry of run_bot the restart budget is tested first: with
\* restart_count >= 10 run_bot returns without a pause; otherwise, with
\* consecutive_errors >= 3, it sleeps error_cooldown once and sets
\* consecutive_errors to 0, and with fewer it does neither. No child is
\* spawned or running while consecutive_errors >= 3, and consecutive_errors
\* never passes 3.
C16_GuardBeforeBreaker ==
    [][ /\ consecutive_errors' <= max_consecutive_errors
        /\ (pc = "guard" /\ restart_count >= max_restarts /\ pc' # pc) =>
              /\ pc' = "done"
              /\ UNCHANGED <<cooldowns, last_sleep, consecutive_errors>>
        /\ (pc = "guard" /\ restart_count < max_restarts /\ pc' # pc) =>
              /\ pc' = "errors"
              /\ UNCHANGED <<cooldowns, last_sleep, consecutive_errors>>
        /\ (pc = "errors" /\ consecutive_errors >= max_consecutive_errors) =>
              /\ cooldowns' = cooldowns + 1
              /\ last_sleep' = error_cooldown
              /\ consecutive_errors' = 0
        /\ (pc = "errors" /\ consecutive_errors < max_consecutive_errors) =>
              UNCHANGED <<cooldowns, last_sleep, consecutive_errors>>
        /\ (spawns' # spawns) => consecutive_errors < max_consecutive_errors
        /\ (child' = "running") => consecutive_errors' < max_consecutive_errors
      ]_vars

\* The budget is used up with three errors counted: run_bot has returned and
\* the last pause taken is not the cooldown.
C16_Witness ==
    /\ pc = "done"
    /\ restart_count = max_restarts
    /\ consecutive_errors = max_consecutive_errors
    /\ last_sleep # error_cooldown
    /\ cooldowns = 2

\* C17: a child is spawned only at the end of an entry of run_bot. With
\* restart_count > 0 the entry first runs run_delete_webhook; when that fails
\* it sleeps 10 seconds and runs it once more, and then spawns whatever the
\* second run returned. With restart_count = 0 the entry runs no cleanup: the
\* only one before the first spawn is the one __main__ ran.
C17_CleanupBeforeRestart ==
    [][ /\ (pc = "errors") =>
              /\ pc' = IF restart_count > 0 THEN "delete1" ELSE "spawn"
              /\ UNCHANGED <<delete_runs, spawns>>
        /\ (pc = "delete1") =>
              /\ delete_runs' = delete_runs + 1
              /\ pc' = IF delete_ok' THEN "spawn" ELSE "delete2"
              /\ ~ delete_ok' => last_sleep' = 10
              /\ spawns' = spawns
        /\ (pc = "delete2") =>
              /\ delete_runs' = delete_runs + 1
              /\ pc' = "spawn"
              /\ spawns' = spawns
        /\ (spawns' # spawns) =>
              /\ pc = "spawn"
              /\ spawns' = spawns + 1
              /\ child' = "running"
        /\ (pc = "spawn") =>
              /\ spawns' = spawns + 1
              /\ IF restart_count = 0
                    THEN spawns = 0 /\ delete_runs = 1
                    ELSE delete_runs - (IF cause = "conflict" THEN 1 ELSE 0)
                            \in {1, 2}
      ]_vars

\* A restart after a quick crash with both cleanup runs failing: the child is
\* about to be spawned all the same.
C17_Witness ==
    /\ pc = "spawn"
    /\ cause = "quick"
    /\ restart_count = 1
    /\ delete_runs = 2
    /\ delete_ok = FALSE
    /\ last_sleep = 10

same_user(a, b) == lower(strip(a)) = lower(strip(b))

\* The rows a sheet holds for a match, and those among them of a user.
rows_for(sheet, match_no) ==
    {i \in 1..Len(sheet) : numericise(sheet[i].MatchNo) = match_no}

rows_of(sheet, match_no, username) ==
    {i \in rows_for(sheet, match_no) : same_user(sheet[i].Username, username)}

\* The teams of a scheduled match, in the order of the poll's options.
teams_of(match_no) == split(schedule_mapping[match_no].Teams, VsSep)

\* The results of a vote that was written to the sheet.
Stored == {"Recorded", "Updated"}

C8_ScoreFrame ==
    [][ (last'.op = "score")
        => /\ Len(pred_sheet') = Len(pred_sheet)
           /\ \A i \in 1..Len(pred_sheet) :
                /\ [pred_sheet'[i] EXCEPT !.Correct = pred_sheet[i].Correct]
                      = pred_sheet[i]
                /\ (numericise(pred_sheet[i].MatchNo) # last'.match)
                      => pred_sheet'[i] = pred_sheet[i]
      ]_vars

\* C9: after a score command that succeeded, every row of the scored match
\* has Correct 1 when its Prediction is the typed winner but for case, and
\* Correct 0 when it is not.
C9_ScoredRowsMarked ==
    (last.op = "score" /\ last.result = "Scored")
    => \A i \in rows_for(pred_sheet, last.match) :
          numericise(pred_sheet[i].Correct) =
             IF lower(pred_sheet[i].Prediction) = lower(last.winner) THEN 1 ELSE 0

\* Match 1 of the season under way, scored again with the other team typed in
\* capitals: the row that was right is now wrong, the other one right.
C9_Witness ==
    /\ events = 1
    /\ last.op = "score"
    /\ last.result = "Scored"
    /\ last.match = 1
    /\ last.winner = <<"C", "S">>
    /\ pred_sheet = << SheetRow(1, Al, Mi, 0), SheetRow(1, Bo, Cs, 1),
                       SheetRow(71, Bo, Cs, 0) >>

\* Whether a typed winner is one of the teams of a match, but for case.
valid_winner(match_no, winner) ==
    \E i \in DOMAIN teams_of(match_no) : lower(teams_of(match_no)[i]) = lower(winner)

\* C10: a score command naming a match that is not in the schedule, or a
\* match above 70, or a winner that is neither team of the match, or a match
\* for which the sheet holds no row, leaves the Predictions sheet as it was
\* and is not reported as scored; from an admin and with no store call
\* failing, it is answered with the refusal of the first of these tests that
\* fails.
C10_RefusedScoreWritesNothing ==
    [][ (/\ last'.op = "score" /\ events' # events
         /\ \/ last'.match \notin DOMAIN schedule_mapping
            \/ last'.match > max_scored_match
            \/ ~ valid_winner(last'.match, last'.winner)
            \/ rows_for(pred_sheet, last'.match) = {})
        => /\ pred_sheet' = pred_sheet
           /\ last'.result # "Scored"
           /\ (last'.uid \in ADMIN_USER_IDS /\ last'.fault = "none")
              => last'.result =
                    IF last'.match \notin DOMAIN schedule_mapping THEN "UnknownMatch"
                    ELSE IF last'.match > max_scored_match THEN "Undecided"
                    ELSE IF ~ valid_winner(last'.match, last'.winner) THEN "InvalidWinner"
                    ELSE IF pred_sheet = <<>> THEN "NoPredictions"
                    ELSE "NoPredictionsForMatch"
      ]_vars

\* An admin scores match 71, for which the sheet holds a row, with one of its
\* teams: refused, and the sheet still holds the rows of the season.
C10_Witness ==
    /\ last.op = "score"
    /\ last.uid \in ADMIN_USER_IDS
    /\ last.match = 71
    /\ last.winner = <<"C", "S">>
    /\ last.result = "Undecided"
    /\ pred_sheet = SeasonPredictions

\* The rows of the poll map that name a poll.
map_rows(poll_id) == {i \in 1..Len(poll_sheet) : poll_sheet[i].poll_id = poll_id}

\* A poll the map does not name, or names with a match the schedule lacks.
unresolved_poll(poll_id) ==
    \A i \in map_rows(poll_id) :
        numericise(poll_sheet[i].MatchNo) \notin DOMAIN schedule_mapping

\* C13: a poll answer (vote or retraction) for a poll that the poll map does
\* not name, or that it maps to a match the schedule does not hold, leaves the
\* Predictions sheet exactly as it was, and once the sheets could be opened
\* it ends as an unknown poll or an unknown match, not as a failure.
C13_UnknownPollIgnored ==
    [][ (last'.op = "answer" /\ unresolved_poll(last'.poll))
        => /\ pred_sheet' = pred_sheet
           /\ last'.fault # "open"
                => last'.result \in {"UnknownPoll", "UnknownMatch"}
      ]_vars

\* With predictions stored, a vote arrives for a poll the map never held.
C13_Witness ==
    /\ last.op = "answer"
    /\ last.poll = poll_id_of(9)
    /\ map_rows(last.poll) = {}
    /\ last.opts = <<0>>
    /\ last.result = "UnknownPoll"
    /\ pred_sheet = SeasonPredictions

\* The words that mark the teams of a match as not yet decided.
UndecidedWords ==
    { <<"Q","u","a","l","i","f","i","e","r">>,
      <<"E","l","i","m","i","n","a","t","o","r">>,
      <<"F","i","n","a","l">> }

\* C12: when the scheduled job of a match fires whose Teams contain
\* "Qualifier", "Eliminator" or "Final", the group gets the informational
\* message, no poll is sent and the poll map gets no new row.
C12_UndecidedJobSendsNoPoll ==
    [][ (/\ last'.op = "job"
         /\ \E w \in UndecidedWords :
                contains(schedule_mapping[last'.match].Teams, w))
        => /\ last'.sent = "info"
           /\ polls_sent' = polls_sent
           /\ poll_sheet' = poll_sheet
      ]_vars

\* The job of the final has fired with three polls already mapped.
C12_Witness ==
    /\ last.op = "job"
    /\ last.match = 72
    /\ last.sent = "info"
    /\ last.result = "Undecided"
    /\ polls_sent = 3
    /\ poll_sheet = SeasonPolls

\* C14: a vote on the poll of a scheduled match whose first option index is
\* not one of 0..len-1, len being the number of teams that Teams splits into,
\* inserts no row and changes none.
C14_OutOfRangeIgnored ==
    [][ (/\ last'.op = "answer"
         /\ last'.opts # <<>>
         /\ last'.match \in DOMAIN schedule_mapping
         /\ last'.opts[1] \notin 0..(Len(teams_of(last'.match)) - 1))
        => pred_sheet' = pred_sheet
      ]_vars

\* The first row of the Predictions sheet that carries a user name.
first_row(username) ==
    CHOOSE i \in 1..Len(pred_sheet) :
        /\ pred_sheet[i].Username = username
        /\ \A j \in 1..(i - 1) : pred_sheet[j].Username # username

\* C11: the leaderboard lists its entries by score, highest first, and entries
\* of equal score in the order in which their users first appear in the
\* Predictions sheet.
C11_RankOrderStable ==
    (last.op = "leaderboard" /\ last.result = "Board")
    => \A i, j \in DOMAIN last.board :
         i < j =>
           \/ last.board[i].Correct > last.board[j].Correct
           \/ /\ last.board[i].Correct = last.board[j].Correct
              /\ first_row(last.board[i].Username) < first_row(last.board[j].Username)

\* C20: the leaderboard has no entry for a blank user name, whatever rows the
\* Predictions sheet holds, and an empty sheet that could be read is answered
\* with the empty result and not with an error.
C20_BlankNamesExcluded ==
    last.op = "leaderboard"
    => /\ \A i \in DOMAIN last.board : strip(last.board[i].Username) # <<>>
       /\ (pred_sheet = <<>> /\ last.fault = "none")
            => (last.result = "NoPredictions" /\ last.board = <<>>)

\* C19: every /startpoll, /score and /leaderboard command that has been
\* handled was answered in the chat, by the poll or by a text, whichever path
\* the handler took.
C19_EveryCommandAnswered ==
    last.op \in {"startpoll", "score", "leaderboard"} => last.sent # "none"

\* The sum of Correct over the first n rows of a sheet that belong to a user,
\* whatever the spelling of the name in the row.
RECURSIVE score_of(_, _, _)
score_of(sheet, username, n) ==
    IF n = 0 THEN 0
    ELSE score_of(sheet, username, n - 1)
           + (IF same_user(sheet[n].Username, username)
                 THEN numericise(sheet[n].Correct) ELSE 0)

\* C21: a /leaderboard command leaves the Predictions sheet as it was, and the
\* board it shows has one entry per user -- two names being the same user
\* when they differ only in case and surrounding blanks, as in the vote
\* handler -- whose score is the sum of Correct over all rows of that user.
C21_OneEntryPerUser ==
    [][ (last'.op = "leaderboard" /\ last'.result = "Board")
        => /\ pred_sheet' = pred_sheet
           /\ \A i, j \in DOMAIN last'.board :
                same_user(last'.board[i].Username, last'.board[j].Username) => i = j
           /\ \A i \in DOMAIN last'.board :
                last'.board[i].Correct
                  = score_of(pred_sheet, last'.board[i].Username, Len(pred_sheet))
      ]_vars

\* C23: when get_all_records of the Predictions sheet fails while a vote is
\* being reconciled, nothing is written: the sheet keeps every row it had.
C23_FailedReadAbandonsVote ==
    [][ (last'.op = "answer" /\ last'.opts # <<>> /\ last'.fault = "read")
        => pred_sheet' = pred_sheet
      ]_vars

C27_PollMapAppendOnly ==
    [][ /\ Len(poll_sheet') >= Len(poll_sheet)
        /\ \A i \in 1..Len(poll_sheet) : poll_sheet'[i] = poll_sheet[i]
        /\ (/\ last'.op = "answer"
            /\ last'.fault \notin {"open", "pollmap"}
            /\ map_rows(last'.poll) # {})
           => /\ \A i \in map_rows(last'.poll) :
                    last'.match = numericise(poll_sheet[i].MatchNo)
              /\ last'.result \in Stored
                    => Cardinality(rows_of(pred_sheet', last'.match, last'.user)) = 1
      ]_vars

\* Match 1 has been polled again, and a vote on its first poll is stored.
C27_Witness ==
    /\ Len(poll_sheet) = 4
    /\ numericise(poll_sheet[4].MatchNo) = 1
    /\ numericise(poll_sheet[1].MatchNo) = 1
    /\ last.op = "answer"
    /\ last.poll = poll_sheet[1].poll_id
    /\ last.match = 1
    /\ last.result \in Stored

\* C28: every poll that is sent, by the job or by /startpoll, gets its row in
\* the poll map in the same step, so that an answer on any poll that was sent
\* never ends as an unknown poll when the map could be read.
C28_SentPollIsMapped ==
    [][ /\ polls_sent' # polls_sent
           => poll_sheet' = save_poll_id(poll_sheet, poll_id_of(polls_sent'), last'.match)
        /\ (/\ last'.op = "answer"
            /\ last'.fault \notin {"open", "pollmap"}
            /\ \E n \in 1..polls_sent : last'.poll = poll_id_of(n))
           => last'.result # "UnknownPoll"
      ]_vars

\* The rows of a sheet that are not the row of a user for a match.
other_rows(sheet, match_no, username) ==
    SelectSeq(sheet, LAMBDA r : ~ (/\ numericise(r.MatchNo) = match_no
                                   /\ same_user(r.Username, username)))

\* C30: a vote, a changed vote or a retraction of a user on a match leaves
\* the rows of every other match and user as they were and in the same
\* order.
C30_VoteFrame ==
    [][ (last'.op = "answer")
        => other_rows(pred_sheet', last'.match, last'.user)
             = other_rows(pred_sheet, last'.match, last'.user)
      ]_vars

\* C24: when the supervisor is through with a child -- run_bot is re-entered
\* or has returned -- the console holds every line the child wrote to stderr,
\* once each and in the order written, whether the child ended on its own or
\* was stopped after a conflict.
C24_EveryLinePrinted ==
    pc \in {"guard", "done"} => console = written

\* C25: when the supervisor is through with a child that wrote a line with
\* the conflict marker, it is through the conflict path (terminate, cleanup,
\* both counters incremented), never through the handling of an exit.
C25_MarkerDrivesConflict ==
    (pc \in {"guard", "done"} /\ HasConflict(written)) => cause = "conflict"

\* C29: a bot that starts without a credential or a required environment
\* variable, or with a schedule that lacks a required column, ends on its own
\* with a nonzero exit code, so that the supervisor does not take it for a
\* clean exit.
C29_ConfigErrorExitsNonzero ==
    [][ (/\ config \in ConfigErrors
         /\ child = "running" /\ child' = "exited" /\ pc' = pc)
        => returncode' # 0
      ]_vars

\* The table a handler leaves when it runs alone on the sheet.
apply_task(sheet, task, rows) ==
    LET out == run_handler(task, sheet, rows)
    IN  IF out.result \in Saving THEN out.sheet ELSE sheet

\* The tables that running the handlers of `left` one at a time, in any
\* order, can leave.
RECURSIVE serial_sheets(_, _, _, _)
serial_sheets(sheet, tasks, left, rows) ==
    IF left = {} THEN {sheet}
    ELSE UNION {serial_sheets(apply_task(sheet, tasks[i], rows), tasks,
                              left \ {i}, rows) : i \in left}

\* C22: when every handler on the loop has returned, whatever the order in
\* which the loop ran their pieces, the Predictions table is one that running
\* the same handlers one at a time in some order leaves: no update is lost.
C22_HandlersSerialize ==
    (\A i \in DOMAIN loop.tasks : loop.tasks[i].at = 3) =>
        pred_sheet \in serial_sheets(loop.start, loop.tasks, DOMAIN loop.tasks,
                                     poll_sheet)

\* A score of match 1 is suspended in its reply, having marked Al's row wrong
\* and Bo's right, and Bo's vote for the winner, handled meanwhile, has set
\* his row back to unscored.
C22_Witness ==
    /\ loop.start = SeasonPredictions
    /\ Len(loop.tasks) = 2
    /\ loop.tasks[1].kind = "score" /\ loop.tasks[1].at = 2
    /\ loop.tasks[2] = [Task("answer", poll_id_of(1), Bo, <<1>>, 0, <<>>)
                           EXCEPT !.at = 3]
    /\ pred_sheet = << SheetRow(1, Al, Mi, 0), SheetRow(1, Bo, Cs, 0),
                       SheetRow(71, Bo, Cs, 0) >>

\* C31: once the control loop has read the marker, every step of the control
\* thread stays on the conflict path (terminate, cleanup, restart) and never
\* turns to the branch on the exit code; run_bot is re-entered with
\* restart_count + 1 and consecutive_errors + 1, whether the child is still
\* running, has ended on its own meanwhile, or ends with code 0 when it is
\* terminated, and whatever run time was measured.
C31_ConflictBeforeExitStatus ==
    [][ (/\ webhook_error_detected
         /\ pc \in {"after", "terminate", "postdelete"}
         /\ pc' # pc) =>
            /\ pc' \in {"terminate", "postdelete", "guard"}
            /\ IF pc' = "guard"
                  THEN /\ restart_count' = restart_count + 1
                       /\ consecutive_errors' = consecutive_errors + 1
                       /\ cause' = "conflict"
                  ELSE UNCHANGED <<restart_count, consecutive_errors, cause>>
      ]_vars

\* A conflict restart of a child that ended with code 0 after a long run: on
\* the other branch this exit would have ended the supervisor.
C31_Witness ==
    /\ pc = "guard"
    /\ cause = "conflict"
    /\ webhook_error_detected
    /\ child = "exited"
    /\ returncode = 0
    /\ run_time > quick_crash_seconds
    /\ restart_count = 2
    /\ consecutive_errors = 2

\* C32: at most one child is alive at any time: from the re-entry of run_bot
\* up to its Popen no child is running, so a child is spawned only when the
\* one before has ended on its own or has been stopped on the conflict path.
C32_OneChildAlive ==
    [][ /\ (pc \in {"main", "guard", "errors", "delete1", "delete2", "spawn"}) =>
              child # "running"
        /\ (spawns' # spawns) =>
              /\ child # "running"
              /\ child' = "running"
              /\ spawns' = spawns + 1
      ]_vars

\* The fifth child runs, after four that were stopped or ended and after one
\* cooldown; the one before it was stopped for a conflict.
C32_Witness ==
    /\ pc = "drain"
    /\ child = "running"
    /\ spawns = 5
    /\ cooldowns = 1
    /\ cause = "conflict"
    /\ returncode = -1
    /\ consecutive_errors = 1

\* Results of a handler whose save_predictions_df raised.
SaveFailed == {"VoteError", "RetractError", "ScoreError"}

\* C33: when the replace-all write of a vote, a retraction or a score fails
\* (sheet.clear() or sheet.update() raises), the Predictions sheet holds the
\* table it held before the operation: it is never left emptied.
C33_SaveAllOrNothing ==
    [][ (/\ events' # events
         /\ last'.fault \in {"clear", "update"}
         /\ last'.result \in SaveFailed)
        => pred_sheet' = pred_sheet
      ]_vars

\* C34: a /score command from a user who is not in ADMIN_USER_IDS, whatever
\* match and winner it names, is refused with a reply before any store call:
\* no read of the Predictions sheet is attempted (so none can fail) and the
\* sheet is left as it was.
C34_NonAdminScoreRefused ==
    [][ (/\ events' # events
         /\ last'.op = "score"
         /\ last'.uid \notin ADMIN_USER_IDS)
        => /\ pred_sheet' = pred_sheet
           /\ last'.result = "NotAdmin"
           /\ last'.fault = "none"
           /\ last'.sent = "reply"
      ]_vars

\* A user who is no admin names match 1 and one of its teams while the sheet
\* holds predictions for it: an admin's command would have been scored.
C34_Witness ==
    /\ last.op = "score"
    /\ last.uid \notin ADMIN_USER_IDS
    /\ last.result = "NotAdmin"
    /\ last.match = 1
    /\ valid_winner(last.match, last.winner)
    /\ pred_sheet = SeasonPredictions

=============================================================================
